---- MODULE Spec2Model ----
(***************************************************************************)
(* Model of the SpamEmailDetector browser extension: the content script    *)
(* (extension/content.js) that harvests message rows, asks the background  *)
(* worker for a verdict and highlights / counts / auto-moves spam, together*)
(* with the chrome.storage and chrome.runtime message plumbing it uses.    *)
(*                                                                         *)
(* The page's event loop is single threaded: every action below is one     *)
(* task (a timer callback, a message response callback, a storage          *)
(* callback, a host DOM change) and runs to completion.                    *)
(***************************************************************************)
EXTENDS FiniteSets, Integers, Sequences, TLC

\* ---------------------------------------------------------------- bounds
NumElems == 3            \* row handles (numbered in the order of creation)
MaxRendered == 2         \* rows the host page renders during the page's life
MaxSettingsWrites == 1   \* writes the settings UI makes during the page's life
MaxHighlighted == 1      \* highlighted rows the automator runs start with
MaxCalls == 3            \* calls of highlightSpam made for one row
MaxInvocations == 2      \* moveEmailToSpam invocations the user's presses may
                         \* bring the total to

Elems == 1..NumElems

\* ------------------------------------------------------- program constants
DefaultThreshold == 90   \* let confidenceThreshold = 0.9 (in percent)
MinTextLen == 5          \* text.length < 5 is skipped
MinLineLen == 3          \* fallback lines: t.trim().length > 3 is kept
SubjectLimit == 100      \* outlook fallback: substring(0, 100)
SnippetLimit == 200      \* outlook fallback: substring(0, 200)
GmailRowSelectors == 3   \* selector patterns tried for gmail rows
OutlookRowSelectors == 7 \* selector patterns tried for outlook rows

\* confidences / thresholds are percentages (0.85 -> 85)
Confs == {90, 95}
Undefined == 0 - 1       \* a key chrome.storage does not hold

\* timers of init, in seconds
SettleDelay == 2         \* setTimeout(scanEmails, 2000)
MutationDelay == 1       \* observer: setTimeout(..., 1000)
ScanInterval == 10       \* setInterval(scanEmails, 10000)
NoTimer == 0 - 1         \* no deadline: the timer is not armed
MaxTime == 21            \* bound: the clock stops after the second interval
StoredThresholds == {0, 95}   \* values the settings UI may store
\* <<subject, snippet>> lengths of the rows the host renders: empty text,
\* a short subject alone, and "ab cd" (5 characters with the blank)
Texts == {<<0, 0>>, <<2, 0>>, <<2, 2>>}
Services == {"gmail", "outlook", "unknown"}

\* A row is described by the set of row selector patterns (numbered in the
\* order scanEmails tries them) that match it.
\*   gmail:   1 tr[data-thread-id]   2 tr.zA   3 div[role="main"] tbody tr
\*   outlook: 1 [data-convid][role="listitem"]
\*            2 [role="listitem"][data-convid]  (the same elements as 1)
\*            3 [data-test-id="message-list-item"]
\*            4 .ms-DetailsRow[role="row"]      5 div[role="listitem"]
\*            6 [role="listitem"], [role="row"] inside the main area
\*            7 div[data-test-id*="message"], div[data-test-id*="item"]
RowKinds(svc) ==
  IF svc = "gmail" THEN {{1, 2, 3}, {1}, {2}, {3}, {2, 3}}
  ELSE IF svc = "outlook"
       THEN {{1, 2, 5, 6}, {1, 2}, {3}, {3, 7}, {4}, {5}, {4, 6}, {7}}
       ELSE {{1}}

\* the row of the current mail list: matched by the first pattern
TypicalKind(svc) ==
  IF svc = "gmail" THEN {1, 2, 3}
  ELSE IF svc = "outlook" THEN {1, 2, 5, 6} ELSE {1}

\* lengths of the trimmed lines of a row's textContent (the fallback of
\* getEmailText splits it at line breaks)
LineSets == {<<>>, <<3>>, <<4>>, <<2, 6, 3, 4>>, <<150, 150, 150>>}

VARIABLES
  service,              \* detectEmailService() of the page origin
  dom,                  \* element -> "absent" | "present" | "removed"
  subjLen, snipLen,     \* element -> length of trimmed subject / snippet
                        \*            found by the subject / snippet selectors
  lines,                \* element -> lengths of the lines of its textContent
  rowSel,               \* element -> row selector patterns that match it
  checked,              \* element -> has attribute data-spam-checked
  highlighted,          \* element -> has attribute data-spam-highlighted
  checkedSets,          \* element -> number of setAttribute(data-spam-checked)
  sent,                 \* element -> number of sendMessage(predictSpam) calls
  overlays,             \* element -> number of .spam-tooltip containers it holds
  hlCalls,              \* element -> number of highlightSpam calls
  invoked,              \* element -> number of moveEmailToSpam invocations
  req,                  \* element -> state of its predictSpam request
  verdict,              \* element -> response handled for it, with the
                        \*            threshold in effect when it was handled
  isEnabled,            \* content script variable
  confidenceThreshold,  \* content script variable
  settingsLoaded,       \* the initial storage.get callback has run
  store,                \* chrome.storage.sync contents
  storageQ,             \* storage operations issued, not yet executed
  cbQ,                  \* storage.get results not yet delivered
  changeQ,              \* storage.onChanged notifications not yet delivered
  writes,               \* number of writes the settings UI has made
  moveTimers,           \* elements with a pending 300 ms auto-move timer
  initTimer,            \* the 2000 ms initial timer: "waiting" (for
                        \*   DOMContentLoaded) | "pending" | "fired"
  scanTimeout,          \* observer.scanTimeout is set (non-null)
  mutTimer,             \* number of pending 1000 ms timers of the observer
  now,                  \* time since the content script ran, in seconds
  readyAt,              \* time at which the document was ready (NoTimer
                        \*   while it is still loading)
  initDue,              \* deadline of the initial timer, NoTimer if not armed
  mutDue,               \* deadline of the observer's timer armed last
  intervalDue,          \* next deadline of the 10000 ms interval
  shown,                \* element -> data-spam-confidence (0: not set)
  button,               \* element -> state of its .spam-move-button:
                        \*   "none" | "enabled" | "moving" | "moved"
  inv,                  \* the moveEmailToSpam invocations, in order of start
  bg,                   \* element -> the background worker's handling of
                        \*            its predictSpam message
  popup                 \* text of the popup's confidence input

vars == <<service, dom, subjLen, snipLen, lines, rowSel, checked, highlighted, checkedSets,
          sent, overlays, hlCalls, invoked, req, verdict, isEnabled,
          confidenceThreshold, settingsLoaded, store, storageQ, cbQ, changeQ,
          writes, moveTimers, initTimer, scanTimeout, mutTimer, now,
          readyAt, initDue, mutDue, intervalDue, shown, button, inv, bg,
          popup>>

envVars == <<service, bg, popup>>
domVars == <<dom, subjLen, snipLen, lines, rowSel>>
markVars == <<checked, checkedSets, sent, req>>
hlVars == <<highlighted, overlays, hlCalls, verdict>>
obsVars == <<scanTimeout, mutTimer, mutDue>>
loadVars == <<initTimer, initDue, readyAt>>
schedVars == <<obsVars, loadVars, now, intervalDue>>
scriptVars == <<isEnabled, confidenceThreshold, settingsLoaded>>
storeVars == <<store, storageQ, cbQ, changeQ, writes>>
autoVars == <<shown, button, inv>>

\* a predictSpam message the background worker has not received
NoBody == [keys |-> {}, is_spam |-> FALSE, confidence |-> Undefined]
NoReply == [success |-> FALSE, keys |-> {}, is_spam |-> FALSE,
            confidence |-> Undefined]
NoRequest == [state |-> "idle", outcome |-> "none", reply |-> NoReply,
              replies |-> 0]

NoVerdict == [kind |-> "none", spam |-> FALSE, conf |-> 0, thr |-> 0,
              auto |-> FALSE, enabled |-> FALSE]

\* ------------------------------------------------------------ pure helpers

\* `${subject} ${snippet}`.trim() : the separating blank survives the trim
\* only when both parts are non-empty.
getEmailTextLen(s, n) ==
  IF s = 0 THEN n
  ELSE IF n = 0 THEN s
  ELSE s + 1 + n

\* LineKept that keeps lines of exactly three characters
LineKeptFrom3(len) == len >= MinLineLen

\* allText.split('\n').filter(t => t.trim().length > 3)
LineKept(len) == len > MinLineLen

KeptLines(ls) == SelectSeq(ls, LineKept)

\* textParts.slice(1).join(' ') : the lines after the first, with one
\* blank between two lines
RECURSIVE JoinLen(_)
JoinLen(ls) ==
  IF ls = <<>> THEN 0
  ELSE IF Len(ls) = 1 THEN ls[1]
  ELSE ls[1] + 1 + JoinLen(Tail(ls))

\* s.substring(0, limit)
Substring(len, limit) == IF len > limit THEN limit ELSE len

\* subject and snippet of getEmailText, as <<subject, snippet>> lengths.
\* s, n: what the subject / snippet selectors found; the line-splitting
\* fallback runs only if (!subject && !snippet), and outlook cuts its
\* results to 100 and 200 characters.
getEmailParts(svc, s, n, ls) ==
  IF s # 0 \/ n # 0 THEN <<s, n>>
  ELSE LET kept == KeptLines(ls) IN
       IF kept = <<>> THEN <<0, 0>>
       ELSE IF svc = "outlook"
            THEN <<Substring(kept[1], SubjectLimit),
                   Substring(JoinLen(Tail(kept)), SnippetLimit)>>
            ELSE <<kept[1], JoinLen(Tail(kept))>>

\* getEmailText(element, service).length
TextLen(e) ==
  LET parts == getEmailParts(service, subjLen[e], snipLen[e], lines[e])
  IN getEmailTextLen(parts[1], parts[2])

\* TooShort with the boundary off by one
TooShortOffByOne(len) == len = 0 \/ len <= MinTextLen

\* if (!text || text.length < 5) continue;
TooShort(len) == len = 0 \/ len < MinTextLen

\* Eligible without the hasAttribute('data-spam-checked') guard
EligibleNoGuard(e) == ~TooShort(TextLen(e))

\* the loop body is reached for an element: not yet checked, text long enough
Eligible(e) == ~checked[e] /\ ~TooShort(TextLen(e))

\* ShouldHighlight that ignores the verdict's is_spam
ShouldHighlightAnyVerdict(spam, conf, thr) == conf >= thr

\* ShouldHighlight that highlights only while no row is highlighted yet
ShouldHighlightFirstOnly(spam, conf, thr) ==
  spam /\ conf >= thr /\ \A e \in Elems : ~highlighted[e]

\* ShouldHighlight with an exclusive comparison
ShouldHighlightStrict(spam, conf, thr) == spam /\ conf > thr

\* response.is_spam && response.confidence >= confidenceThreshold
ShouldHighlight(spam, conf, thr) == spam /\ conf >= thr

\* (items.scannedCount || 0) + 1 : an absent key and 0 both count as 0
NextCount(v) == (IF v = Undefined \/ v = 0 THEN 0 ELSE v) + 1

\* ------------------------------------------------------------------- Init
Init ==
  /\ service \in Services
  /\ dom = [e \in Elems |-> "absent"]
  /\ subjLen = [e \in Elems |-> 0]
  /\ snipLen = [e \in Elems |-> 0]
  /\ lines = [e \in Elems |-> <<>>]
  /\ rowSel = [e \in Elems |-> {}]
  /\ checked = [e \in Elems |-> FALSE]
  /\ highlighted = [e \in Elems |-> FALSE]
  /\ checkedSets = [e \in Elems |-> 0]
  /\ sent = [e \in Elems |-> 0]
  /\ overlays = [e \in Elems |-> 0]
  /\ hlCalls = [e \in Elems |-> 0]
  /\ invoked = [e \in Elems |-> 0]
  /\ req = [e \in Elems |-> "none"]
  /\ verdict = [e \in Elems |-> NoVerdict]
  /\ isEnabled = TRUE
  /\ confidenceThreshold = DefaultThreshold
  /\ settingsLoaded = FALSE
  \* a fresh profile: nothing stored yet but the counters
  /\ store = [isEnabled |-> TRUE, confidenceThreshold |-> Undefined,
              autoMoveToSpam |-> FALSE, autoDelete |-> FALSE,
              scannedCount |-> 0, spamCount |-> 0]
  /\ writes = 0
  /\ storageQ = <<>>
  /\ cbQ = <<>>
  /\ changeQ = <<>>
  /\ moveTimers = {}
  /\ initTimer = "pending"
  /\ scanTimeout = FALSE
  /\ mutTimer = 0
  /\ now = 0
  /\ readyAt = 0
  /\ initDue = SettleDelay
  /\ mutDue = NoTimer
  /\ intervalDue = ScanInterval
  /\ shown = [e \in Elems |-> 0]
  /\ button = [e \in Elems |-> "none"]
  /\ inv = <<>>
  /\ bg = [e \in Elems |-> NoRequest]
  /\ popup = ""

\* --------------------------------------------------------------- settings

\* chrome.storage.sync.get([...], (items) => {...}) at script load.  The
\* callback receives the store's contents.  A stored isEnabled is always a
\* boolean here (an absent key behaves as the default true).
\*   if (items.confidenceThreshold) confidenceThreshold = ...
LoadedThreshold(stored, current) ==
  IF stored # Undefined /\ stored # 0 THEN stored ELSE current

LoadSettings ==
  /\ ~settingsLoaded
  /\ settingsLoaded' = TRUE
  /\ isEnabled' = store.isEnabled
  /\ confidenceThreshold' =
         LoadedThreshold(store.confidenceThreshold, confidenceThreshold)
  /\ UNCHANGED <<envVars, domVars, markVars, hlVars, invoked, autoVars,
                 storeVars, moveTimers, schedVars>>

\* The settings UI (popup) writes one key; chrome queues a change
\* notification for every listener.
SettingsWrite(key, val) ==
  /\ writes < MaxSettingsWrites
  /\ writes' = writes + 1
  /\ store[key] # val
  /\ store' = [store EXCEPT ![key] = val]
  /\ changeQ' = Append(changeQ, [key |-> key, newValue |-> val])
  /\ UNCHANGED <<envVars, domVars, markVars, hlVars, invoked, autoVars,
                 scriptVars, storageQ, cbQ, moveTimers, schedVars>>

\* texts the user leaves in the popup's confidence input
InputTexts == {"abc", "-0.1", "0", "0.95", "1", "1.1", "0.5abc"}

\* parseFloat(text), in percent: the longest numeric prefix, NaN if none
NaN == 0 - 1000
parseFloat(text) ==
  CASE text = "-0.1" -> 0 - 10
    [] text = "0" -> 0
    [] text = "0.95" -> 95
    [] text = "1" -> 100
    [] text = "1.1" -> 110
    [] text = "0.5abc" -> 50
    [] OTHER -> NaN

\* InRange without the upper limit
InRangeNoUpper(value) == value # NaN /\ value >= 0

\* value >= 0 && value <= 1 : false for NaN
InRange(value) == value # NaN /\ value >= 0 /\ value <= 100

\* The popup's 'input' listener of the confidence field:
\*   const value = parseFloat(e.target.value);
\*   if (value >= 0 && value <= 1) chrome.storage.sync.set({...})
\* A set that does not change the stored value notifies no listener.
PopupConfidenceInput(text) ==
  LET value == parseFloat(text) IN
  /\ popup # text
  /\ popup' = text
  /\ IF InRange(value) /\ store.confidenceThreshold # value
     THEN /\ writes < MaxSettingsWrites
          /\ writes' = writes + 1
          /\ store' = [store EXCEPT !.confidenceThreshold = value]
          /\ changeQ' = Append(changeQ,
                 [key |-> "confidenceThreshold", newValue |-> value])
     ELSE UNCHANGED <<store, changeQ, writes>>
  /\ UNCHANGED <<service, bg, domVars, markVars, hlVars, invoked, autoVars,
                 scriptVars, storageQ, cbQ, moveTimers, schedVars>>

\* ChangedValue of a listener that keeps what it has
ChangedValueIgnored(c, key, current) == current

\* if (changes.key) variable = changes.key.newValue
ChangedValue(c, key, current) ==
  IF c.key = key THEN c.newValue ELSE current

\* chrome.storage.onChanged listener
OnChanged ==
  /\ changeQ # <<>>
  /\ LET c == Head(changeQ) IN
       /\ isEnabled' = ChangedValue(c, "isEnabled", isEnabled)
       /\ confidenceThreshold' =
            ChangedValue(c, "confidenceThreshold", confidenceThreshold)
  /\ changeQ' = Tail(changeQ)
  /\ UNCHANGED <<envVars, domVars, markVars, hlVars, invoked, autoVars,
                 settingsLoaded, store, storageQ, cbQ, writes, moveTimers,
                 schedVars>>

\* ------------------------------------------------------------- host page

\* The host renders a new row.  A childList mutation under document.body
\* runs the MutationObserver callback (a microtask of the same task): it
\* arms the 1000 ms scan timer unless observer.scanTimeout is set:
\*   if (observer.scanTimeout) return;
\*   observer.scanTimeout = setTimeout(..., 1000);
\* The result is <<observer.scanTimeout, number of timers pending>>.
\* ObserverCallback without the test of observer.scanTimeout
ObserverCallbackNoGuard(flag, timer) == <<TRUE, timer + 1>>

ObserverCallback(flag, timer) ==
  IF flag THEN <<flag, timer>> ELSE <<TRUE, timer + 1>>

\* The observer's part of a task: its callback runs if the task mutated
\* the document, and a timer it arms is due MutationDelay later.
Observe(mutated) ==
  LET obs == IF mutated THEN ObserverCallback(scanTimeout, mutTimer)
             ELSE <<scanTimeout, mutTimer>>
  IN /\ scanTimeout' = obs[1]
     /\ mutTimer' = obs[2]
     /\ mutDue' = IF obs[2] > mutTimer THEN now + MutationDelay ELSE mutDue

HostRender(e, t, kind, ls) ==
  /\ dom[e] = "absent"
  /\ \A f \in Elems : f < e => dom[f] # "absent"
  /\ e <= MaxRendered
  /\ dom' = [dom EXCEPT ![e] = "present"]
  /\ subjLen' = [subjLen EXCEPT ![e] = t[1]]
  /\ snipLen' = [snipLen EXCEPT ![e] = t[2]]
  /\ lines' = [lines EXCEPT ![e] = ls]
  /\ rowSel' = [rowSel EXCEPT ![e] = kind]
  /\ Observe(TRUE)
  /\ UNCHANGED <<envVars, markVars, hlVars, invoked, autoVars, scriptVars,
                 storeVars, moveTimers, loadVars, now, intervalDue>>

\* The host removes a row (navigation, archiving); handles held by pending
\* callbacks stay valid but the element is no longer in the document.
HostRemove(e) ==
  /\ dom[e] = "present"
  /\ dom' = [dom EXCEPT ![e] = "removed"]
  /\ Observe(TRUE)
  /\ UNCHANGED <<envVars, subjLen, snipLen, lines, rowSel, markVars,
                 hlVars, invoked, autoVars, scriptVars, storeVars,
                 moveTimers, loadVars, now, intervalDue>>

\* ------------------------------------------------------------- scanEmails

\* document.querySelectorAll(pattern k) : rows in the document it matches
Matches(k) == {e \in Elems : dom[e] = "present" /\ k \in rowSel[e]}

RowSelectors ==
  IF service = "gmail" THEN 1..GmailRowSelectors ELSE 1..OutlookRowSelectors

\* EmailElements as the union of what the patterns match
EmailElementsUnion == UNION {Matches(k) : k \in RowSelectors}

\* emailElements = querySelectorAll(pattern 1);
\* if (emailElements.length === 0) emailElements = querySelectorAll(next)...
\* : the result of the first pattern that matches anything
RECURSIVE FirstMatch(_)
FirstMatch(k) ==
  IF k \notin RowSelectors THEN {}
  ELSE LET found == Matches(k) IN
       IF found # {} THEN found ELSE FirstMatch(k + 1)

EmailElements == FirstMatch(1)

\* Targets of a pass that stops after the first row it enumerates
TargetsFirstRowOnly ==
  {e \in EmailElements : Eligible(e) /\ \A f \in EmailElements : e <= f}

\* elements for which the loop body reaches setAttribute + sendMessage
Targets == {e \in EmailElements : Eligible(e)}

\* Dispatched when a throw ends the loop: nothing after the first element
\* whose sendMessage throws is reached
DispatchedUntilThrow(targets, throwSet) ==
  {e \in targets : \A t \in targets \cap throwSet : e <= t}

\* The try/catch around sendMessage is inside the loop: a throw for one
\* element is logged and the loop goes on with the next element.
Dispatched(targets, throwSet) == targets

\* MarkChecked that leaves the attribute to be set later
MarkCheckedNever(chk, d) == chk

\* MarkChecked with setAttribute moved above the text-length test: every
\* enumerated row is marked
MarkCheckedEveryRow(chk, d) ==
  [e \in Elems |-> chk[e] \/ e \in d \/ dom[e] = "present"]

\* element.setAttribute('data-spam-checked', 'true') precedes sendMessage
MarkChecked(chk, d) == [e \in Elems |-> chk[e] \/ e \in d]

\* ScanSkipped without the service test
ScanSkippedDisabledOnly == ~isEnabled

\* ScanSkipped without the isEnabled test
ScanSkippedUnknownOnly == service = "unknown"

\* if (!isEnabled) return;  if (service === 'unknown') return;
ScanSkipped == ~isEnabled \/ service = "unknown"

\* one run of scanEmails(); throwSet = elements whose sendMessage throws
ScanEmails(throwSet) ==
  IF ScanSkipped
  THEN UNCHANGED markVars
  ELSE LET d == Dispatched(Targets, throwSet) IN
       /\ checked' = MarkChecked(checked, d)
       /\ checkedSets' = [e \in Elems |->
             IF e \in d THEN checkedSets[e] + 1 ELSE checkedSets[e]]
       /\ sent' = [e \in Elems |-> IF e \in d THEN sent[e] + 1 ELSE sent[e]]
       /\ req' = [e \in Elems |->
             IF e \in d
             THEN (IF e \in throwSet THEN "thrown" ELSE "inflight")
             ELSE req[e]]

\* only the elements a pass dispatches can throw in it
ThrowSets == SUBSET Targets

\* ScanObserved of an observer that also watches attributes
ScanObservedAttributes(before, after) == before # after

\* Does the observer see what a scan did to the document?  A scan only
\* sets the data-spam-checked attribute; the observer is registered with
\* { childList: true, subtree: true } and gets no attribute records.
ScanObserved(before, after) == FALSE

\* ScanTimeoutAfter of a callback whose assignment a failed scan skips
ScanTimeoutAfterUnlessFailed(failed) == failed

\* observer.scanTimeout after the timer's callback: scanEmails is an async
\* function, so a failure inside it rejects the promise it returns and the
\* call itself never throws; observer.scanTimeout = null always runs.
ScanTimeoutAfter(failed) == FALSE

\* scheduler triggers (init): each runs scanEmails once

\* setTimeout(scanEmails, 2000) after page load
InitialScan(throwSet) ==
  /\ initTimer = "pending"
  /\ initTimer' = "fired"
  /\ initDue' = NoTimer
  /\ ScanEmails(throwSet)
  /\ Observe(ScanObserved(checked, checked'))
  /\ UNCHANGED <<envVars, domVars, hlVars, invoked, autoVars, scriptVars,
                 storeVars, moveTimers, readyAt, now, intervalDue>>

\* observer.scanTimeout fires: scanEmails(); observer.scanTimeout = null.
\* Mutation records of the callback are delivered when it has returned.
MutationScan(throwSet) ==
  /\ mutTimer > 0
  /\ ScanEmails(throwSet)
  /\ LET flag == ScanTimeoutAfter(throwSet # {})
         left == mutTimer - 1
         obs == IF ScanObserved(checked, checked')
                THEN ObserverCallback(flag, left)
                ELSE <<flag, left>>
     IN /\ scanTimeout' = obs[1]
        /\ mutTimer' = obs[2]
        /\ mutDue' = IF obs[2] > left THEN now + MutationDelay
                     ELSE IF left = 0 THEN NoTimer ELSE mutDue
  /\ UNCHANGED <<envVars, domVars, hlVars, invoked, autoVars, scriptVars,
                 storeVars, moveTimers, loadVars, now, intervalDue>>

\* The callback of the interval that skips its scan while a mutation scan
\* is pending or a response is outstanding
IntervalCallbackUnlessBusy(throwSet) ==
  IF scanTimeout \/ \E e \in Elems : req[e] = "inflight"
  THEN UNCHANGED markVars
  ELSE ScanEmails(throwSet)

\* the callback of the interval is scanEmails itself
IntervalCallback(throwSet) == ScanEmails(throwSet)

\* setInterval(scanEmails, 10000): never cleared; the next callback is due
\* one interval after this one
IntervalScan(throwSet) ==
  /\ IntervalCallback(throwSet)
  /\ intervalDue' = now + ScanInterval
  /\ Observe(ScanObserved(checked, checked'))
  /\ UNCHANGED <<envVars, domVars, hlVars, invoked, autoVars, scriptVars,
                 storeVars, moveTimers, loadVars, now>>

\* ------------------------------------------------------ response callback

GetOp(key, e) == [op |-> "get", key |-> key, elem |-> e, val |-> 0]
SetOp(key, e, v) == [op |-> "set", key |-> key, elem |-> e, val |-> v]

\* IssuedOps that reads the spam counter before the scanned counter
IssuedOpsSpamFirst(e, hl) ==
  IF hl
  THEN <<GetOp("spamCount", e), GetOp("scannedCount", e),
         GetOp("autoMoveToSpam", e)>>
  ELSE <<GetOp("scannedCount", e)>>

\* storage operations the success branch issues, in program order
IssuedOps(e, hl) ==
  IF hl
  THEN <<GetOp("scannedCount", e), GetOp("spamCount", e),
         GetOp("autoMoveToSpam", e)>>
  ELSE <<GetOp("scannedCount", e)>>

\* HighlightAdds without the hasAttribute('data-spam-highlighted') guard
HighlightAddsAlways(e) == 1

\* highlightSpam(element, confidence): returns at once when the element
\* already has data-spam-highlighted, else sets it and appends one overlay
HighlightAdds(e) == IF highlighted[e] THEN 0 ELSE 1

\* existingTooltip.remove(): querySelector finds the first .spam-tooltip
\* container only (the button sits inside it and goes with it)
ExistingRemoved(n) == IF n > 0 THEN 1 ELSE 0

\* highlightSpam(e, confidence).  Past the guard it sets the marker and
\* data-spam-confidence, removes an existing overlay container and appends
\* a new one that holds the tooltip and an enabled "Move to Spam" button.
\* removeChild / appendChild on a row still in the document are childList
\* mutations: the observer callback runs.
HighlightSpam(e, confidence) ==
  LET adds == HighlightAdds(e)
  IN /\ hlCalls' = [hlCalls EXCEPT ![e] = @ + 1]
     /\ highlighted' = [highlighted EXCEPT ![e] = TRUE]
     /\ overlays' = [overlays EXCEPT ![e] =
           IF adds = 1 THEN @ - ExistingRemoved(@) + adds ELSE @]
     /\ shown' = [shown EXCEPT ![e] = IF adds = 1 THEN confidence ELSE @]
     /\ button' = [button EXCEPT ![e] = IF adds = 1 THEN "enabled" ELSE @]
     /\ Observe(adds = 1 /\ dom[e] = "present")

\* Succeeded without the response.success test
SucceededUnlessLastError(kind) == kind # "lastError"

\* if (chrome.runtime.lastError) return;  if (response && response.success)
Succeeded(kind) == kind = "ok"

\* The callback of sendMessage for element e.  kind = "lastError" when
\* chrome.runtime.lastError is set, "fail" for {success: false} (or no
\* response object), "ok" for {success: true, is_spam, confidence}.
HandleResponse(e, kind, spam, conf) ==
  /\ req[e] = "inflight"
  /\ req' = [req EXCEPT ![e] = kind]
  /\ IF Succeeded(kind)
     THEN LET hl == ShouldHighlight(spam, conf, confidenceThreshold) IN
          /\ verdict' = [verdict EXCEPT ![e] =
                [kind |-> kind, spam |-> spam, conf |-> conf,
                 thr |-> confidenceThreshold,
                 auto |-> store.autoMoveToSpam, enabled |-> isEnabled]]
          /\ storageQ' = storageQ \o IssuedOps(e, hl)
          /\ IF hl
             THEN HighlightSpam(e, conf)
             ELSE UNCHANGED <<highlighted, overlays, hlCalls, shown,
                              button, obsVars>>
     ELSE UNCHANGED <<verdict, storageQ, highlighted, overlays, hlCalls,
                      shown, button, obsVars>>
  /\ UNCHANGED <<envVars, domVars, checked, checkedSets, sent, invoked, inv,
                 scriptVars, store, cbQ, changeQ, writes, moveTimers,
                 loadVars, now, intervalDue>>

\* ----------------------------------------------------- chrome.storage.sync

\* StorageOrder serving the most recently issued operation first
StorageOrderNewestFirst(q) == Len(q)

\* The storage back end executes the operations of this context in the
\* order they were issued; a get captures the value it reads, a set
\* replaces the stored value.
StorageOrder(q) == 1

StorageExecute ==
  /\ storageQ # <<>>
  /\ LET i == StorageOrder(storageQ)
         o == storageQ[i]
         rest == [j \in 1..(Len(storageQ) - 1) |->
                    IF j < i THEN storageQ[j] ELSE storageQ[j + 1]]
     IN /\ storageQ' = rest
        /\ IF o.op = "get"
           THEN /\ cbQ' = Append(cbQ, [o EXCEPT !.val = store[o.key]])
                /\ store' = store
           ELSE /\ store' = [store EXCEPT ![o.key] = o.val]
                /\ cbQ' = cbQ
  /\ UNCHANGED <<envVars, domVars, markVars, hlVars, invoked, autoVars,
                 scriptVars, changeQ, writes, moveTimers, schedVars>>

\* ArmsAutoMove that does not look at the value read
ArmsAutoMoveAlways(val) == TRUE

\* if (items.autoMoveToSpam) { setTimeout(..., 300) }
ArmsAutoMove(val) == val

\* The callback of a storage.get: for a counter it issues
\* set({key: (items.key || 0) + 1}); for autoMoveToSpam it arms the 300 ms
\* timer that calls moveEmailToSpam when the setting is on.
StorageCallback ==
  /\ cbQ # <<>>
  /\ LET c == Head(cbQ) IN
       IF c.key = "autoMoveToSpam"
       THEN /\ moveTimers' = IF ArmsAutoMove(c.val)
                             THEN moveTimers \cup {c.elem}
                             ELSE moveTimers
            /\ storageQ' = storageQ
       ELSE /\ storageQ' = Append(storageQ,
                                  SetOp(c.key, c.elem, NextCount(c.val)))
            /\ moveTimers' = moveTimers
  /\ cbQ' = Tail(cbQ)
  /\ UNCHANGED <<envVars, domVars, markVars, hlVars, invoked, autoVars,
                 scriptVars, store, changeQ, writes, schedVars>>

\* --------------------------------------------------------- moveEmailToSpam
\* An invocation selects the row (element.click()) and arms one 100 ms
\* timer ("reveal"); its callback arms the timed stages below.  Delays are
\* in units of 100 ms, counted from the reveal callback.

\* gmail: setTimeout(() => findAndClickSpam(), 100 / 300 / 500)
GmailDelay == [poll1 |-> 1, poll2 |-> 3, poll3 |-> 5]

\* outlook: findAndClickJunk at 200 / 400 / 600, the toolbar search at 500,
\* the keyboard shortcut at 700, the context menu at 800 and, armed by the
\* context-menu callback, the menu probe 500 later
OutlookDelay == [poll1 |-> 2, poll2 |-> 4, poll3 |-> 6, toolbar |-> 5,
                 keyboard |-> 7, context |-> 8, menu |-> 13]

Polls == {"poll1", "poll2", "poll3"}

\* time of a stage's timer, counted from the start of the invocation
Deadline(svc, s) ==
  IF s = "reveal" THEN 1
  ELSE 1 + (IF svc = "gmail" THEN GmailDelay[s] ELSE OutlookDelay[s])

\* the timers the reveal callback arms
Scheduled(svc) ==
  IF svc = "gmail" THEN DOMAIN GmailDelay
  ELSE DOMAIN OutlookDelay \ {"menu"}

\* let moved = false; ... return moved;  The timers have not run when the
\* function returns: ret is the value of moved at that point.
NewInvocation(e, by) ==
  LET moved == FALSE IN
  [elem |-> e, by |-> by,
   pending |-> IF service \in {"gmail", "outlook"} THEN {"reveal"} ELSE {},
   ran |-> {}, moved |-> moved, clicks |-> 0, keys |-> 0, hits |-> {},
   ret |-> moved]

\* the pending timer of invocation r that is due first
NextStage(r) ==
  CHOOSE s \in r.pending :
     \A t \in r.pending : Deadline(service, s) <= Deadline(service, t)

\* Where the host's DOM holds a (for gmail: visible) control that matches
\* the spam/junk selectors when a stage runs: nowhere, inside the row the
\* invocation is about, or only inside the row of another message.
Places == {"none", "own", "other"}

\* Does the query of stage s locate the control?
\*   gmail polls: element.querySelector(...), then
\*     element.closest('tr, div[role="row"]').querySelector(...): the row
\*   outlook polls: element.querySelector(...), then parent.querySelector
\*     for up to 5 ancestors: every row below those ancestors
\*   toolbar and menu probe: a query of the document's toolbar / document
Located(svc, s, where) ==
  IF s \in Polls /\ svc = "gmail" THEN where = "own" ELSE where # "none"

\* what a click of stage s lands on: the polls click a control of a row,
\* the toolbar search and the menu probe one of the page
HitPlace(s, where) == IF s \in Polls THEN where ELSE "page"

\* The callback of stage s of invocation r; where = the place of the
\* control in the host's DOM.
\*   polls and the menu probe: click whenever a control is found
\*   toolbar, keyboard, context menu: if (!moved) { ... }
\* ran collects the stages whose search or dispatch was carried out.
RunStage(r, s, where) ==
  LET found == Located(service, s, where)
      runs == ~(s \in {"toolbar", "keyboard", "context"} /\ r.moved)
      click == runs /\ found /\ s \in Polls \cup {"toolbar", "menu"}
      arms == IF s = "reveal" THEN Scheduled(service)
              ELSE IF s = "context" /\ runs THEN {"menu"}
              ELSE {}
  IN [r EXCEPT !.pending = (@ \ {s}) \cup arms,
               !.ran = IF runs THEN @ \cup {s} ELSE @,
               !.moved = @ \/ click,
               !.clicks = IF click THEN @ + 1 ELSE @,
               !.hits = IF click THEN @ \cup {HitPlace(s, where)} ELSE @,
               !.keys = IF s = "keyboard" /\ runs THEN @ + 1 ELSE @]

\* Timers fire in the order of their deadlines: a timer of invocation j
\* cannot fire while an invocation started before it still holds a timer
\* with the same or a smaller delay.
DueBefore(j) ==
  \A i \in 1..(j - 1) : \A s \in inv[i].pending :
     Deadline(service, s) > Deadline(service, NextStage(inv[j]))

StageFire(j, where) ==
  /\ j \in 1..Len(inv)
  /\ inv[j].pending # {}
  /\ DueBefore(j)
  /\ inv' = [inv EXCEPT ![j] = RunStage(@, NextStage(@), where)]
  /\ UNCHANGED <<envVars, domVars, markVars, hlVars, invoked, shown, button,
                 scriptVars, storeVars, moveTimers, schedVars>>

\* MoveEmailToSpam that runs only when the auto-move setting is on
MoveEmailToSpamIfAuto(e, by) ==
  IF store.autoMoveToSpam
  THEN /\ invoked' = [invoked EXCEPT ![e] = @ + 1]
       /\ inv' = Append(inv, NewInvocation(e, by))
  ELSE UNCHANGED <<invoked, inv>>

\* a call of moveEmailToSpam(element, service, selectors)
MoveEmailToSpam(e, by) ==
  /\ invoked' = [invoked EXCEPT ![e] = @ + 1]
  /\ inv' = Append(inv, NewInvocation(e, by))

\* setTimeout(() => moveEmailToSpam(element, service, selectors), 300)
AutoMoveFire(e) ==
  /\ e \in moveTimers
  /\ moveTimers' = moveTimers \ {e}
  /\ MoveEmailToSpam(e, "auto")
  /\ UNCHANGED <<envVars, domVars, markVars, hlVars, shown, button,
                 scriptVars, storeVars, schedVars>>

\* ------------------------------------------------------ the manual control

\* Pressable that ignores the disabled attribute
PressableWhileDisabled(e) == button[e] # "none" /\ dom[e] = "present"

\* the user can press the button of a row that is in the document; a
\* disabled button dispatches no click event
Pressable(e) == button[e] = "enabled" /\ dom[e] = "present"

\* click listener of the button: 'Moving...', disabled = true,
\* moveEmailToSpam(...), setTimeout(..., checkDelay)
ManualClick(e) ==
  /\ Pressable(e)
  /\ Len(inv) < MaxInvocations
  /\ button' = [button EXCEPT ![e] = "moving"]
  /\ MoveEmailToSpam(e, "manual")
  /\ UNCHANGED <<envVars, domVars, markVars, hlVars, shown, scriptVars,
                 storeVars, moveTimers, schedVars>>

\* const checkDelay = service === 'gmail' ? 600 : 1500;
CheckDelay(svc) == IF svc = "gmail" THEN 6 ELSE 15

\* the delay of the timer that re-enables the button
ResetDelay == 20

\* ResetOffset of a button that is re-enabled with the press
ResetOffsetAtPress(svc) == 0

\* time from the press to the re-enabling of the button: the 2000 ms timer
\* is armed by the callback of the checkDelay timer
ResetOffset(svc) == CheckDelay(svc) + ResetDelay

\* A timer of the click listener, due offset after the press, fires after
\* the timers that the invocation of the same press holds for an earlier
\* time (the listener's timer is the older one of two with the same time).
AfterStages(e, offset) ==
  \A j \in 1..Len(inv) :
     (inv[j].elem = e /\ inv[j].by = "manual") =>
        \A s \in inv[j].pending : Deadline(service, s) >= offset

\* the checkDelay timer (600 ms gmail, 1500 ms outlook): 'Moved' is shown
\* whatever happened, and the 2000 ms timer is armed
ButtonCheck(e) ==
  /\ button[e] = "moving"
  /\ AfterStages(e, CheckDelay(service))
  /\ button' = [button EXCEPT ![e] = "moved"]
  /\ UNCHANGED <<envVars, domVars, markVars, hlVars, invoked, shown, inv,
                 scriptVars, storeVars, moveTimers, schedVars>>

\* the 2000 ms timer: 'Move to Spam', disabled = false
ButtonReset(e) ==
  /\ button[e] = "moved"
  /\ AfterStages(e, ResetOffset(service))
  /\ button' = [button EXCEPT ![e] = "enabled"]
  /\ UNCHANGED <<envVars, domVars, markVars, hlVars, invoked, shown, inv,
                 scriptVars, storeVars, moveTimers, schedVars>>

\* ------------------------------------------------------------------- Next
\* The page's life up to the start of an automatic invocation; the timed
\* stages of the invocations and the manual control are followed from the
\* state after the verdicts, in SpecAutomator below.
Next ==
  \/ LoadSettings
  \/ \E v \in BOOLEAN : SettingsWrite("isEnabled", v)
  \/ \E v \in StoredThresholds : SettingsWrite("confidenceThreshold", v)
  \/ \E v \in BOOLEAN : SettingsWrite("autoMoveToSpam", v)
  \/ OnChanged
  \/ \E e \in Elems, t \in Texts :
        HostRender(e, t, TypicalKind(service), <<>>)
  \/ \E e \in Elems : HostRemove(e)
  \/ \E t \in ThrowSets : InitialScan(t)
  \/ \E t \in ThrowSets : MutationScan(t)
  \/ \E t \in ThrowSets : IntervalScan(t)
  \/ \E e \in Elems, k \in {"lastError", "fail", "ok"}, sp \in BOOLEAN,
        c \in Confs : HandleResponse(e, k, sp, c)
  \/ StorageExecute
  \/ StorageCallback
  \/ \E e \in Elems : AutoMoveFire(e)

Spec == Init /\ [][Next]_vars

\* ------------------------------------------------ responses and counters
\* The state right after the first scan of a page that shows NumElems rows
\* with classifiable text: every row is checked and its request is in
\* flight.  From there only the response callbacks, the storage back end,
\* the storage callbacks and the auto-move timers run.
InitResponses ==
  /\ service \in {"gmail", "outlook"}
  /\ dom = [e \in Elems |-> "present"]
  /\ subjLen = [e \in Elems |-> 2]
  /\ snipLen = [e \in Elems |-> 2]
  /\ lines = [e \in Elems |-> <<>>]
  /\ rowSel = [e \in Elems |-> TypicalKind(service)]
  /\ checked = [e \in Elems |-> TRUE]
  /\ highlighted = [e \in Elems |-> FALSE]
  /\ checkedSets = [e \in Elems |-> 1]
  /\ sent = [e \in Elems |-> 1]
  /\ overlays = [e \in Elems |-> 0]
  /\ hlCalls = [e \in Elems |-> 0]
  /\ invoked = [e \in Elems |-> 0]
  /\ req = [e \in Elems |-> "inflight"]
  /\ verdict = [e \in Elems |-> NoVerdict]
  /\ isEnabled = TRUE
  /\ settingsLoaded = TRUE
  /\ \E thr \in {Undefined, 95}, am \in BOOLEAN, ad \in BOOLEAN :
        /\ store = [isEnabled |-> TRUE, confidenceThreshold |-> thr,
                    autoMoveToSpam |-> am, autoDelete |-> ad,
                    scannedCount |-> 0, spamCount |-> 0]
        /\ confidenceThreshold = LoadedThreshold(thr, DefaultThreshold)
  /\ writes = 0
  /\ storageQ = <<>>
  /\ cbQ = <<>>
  /\ changeQ = <<>>
  /\ moveTimers = {}
  /\ initTimer = "fired"
  /\ scanTimeout = FALSE
  /\ mutTimer = 0
  /\ now = 0
  /\ readyAt = 0
  /\ initDue = NoTimer
  /\ mutDue = NoTimer
  /\ intervalDue = ScanInterval
  /\ shown = [e \in Elems |-> 0]
  /\ button = [e \in Elems |-> "none"]
  /\ inv = <<>>
  /\ bg = [e \in Elems |-> NoRequest]
  /\ popup = ""

NextResponses ==
  \/ \E e \in Elems, k \in {"lastError", "fail", "ok"}, sp \in BOOLEAN,
        c \in Confs : HandleResponse(e, k, sp, c)
  \/ StorageExecute
  \/ StorageCallback
  \/ \E e \in Elems : AutoMoveFire(e)

SpecResponses == InitResponses /\ [][NextResponses]_vars

\* ------------------------------------------------ automator and button
\* The state after every verdict of a page with NumElems classifiable rows
\* has been handled and counted with the default threshold: the rows in hl
\* got a spam verdict of 95 and are highlighted, the others a ham verdict.
\* With the auto-move setting on (am), the storage callbacks have armed the
\* 300 ms timer of every highlighted row.
AfterVerdicts(hl, am) ==
  /\ service \in {"gmail", "outlook"}
  /\ dom = [e \in Elems |-> "present"]
  /\ subjLen = [e \in Elems |-> 2]
  /\ snipLen = [e \in Elems |-> 2]
  /\ lines = [e \in Elems |-> <<>>]
  /\ rowSel = [e \in Elems |-> TypicalKind(service)]
  /\ checked = [e \in Elems |-> TRUE]
  /\ highlighted = [e \in Elems |-> e \in hl]
  /\ checkedSets = [e \in Elems |-> 1]
  /\ sent = [e \in Elems |-> 1]
  /\ overlays = [e \in Elems |-> IF e \in hl THEN 1 ELSE 0]
  /\ hlCalls = [e \in Elems |-> IF e \in hl THEN 1 ELSE 0]
  /\ invoked = [e \in Elems |-> 0]
  /\ req = [e \in Elems |-> "ok"]
  /\ verdict = [e \in Elems |->
        [kind |-> "ok", spam |-> e \in hl, conf |-> 95,
         thr |-> DefaultThreshold, auto |-> am, enabled |-> TRUE]]
  /\ isEnabled = TRUE
  /\ confidenceThreshold = DefaultThreshold
  /\ settingsLoaded = TRUE
  /\ store = [isEnabled |-> TRUE, confidenceThreshold |-> Undefined,
              autoMoveToSpam |-> am, autoDelete |-> FALSE,
              scannedCount |-> NumElems, spamCount |-> Cardinality(hl)]
  /\ writes = 0
  /\ storageQ = <<>>
  /\ cbQ = <<>>
  /\ changeQ = <<>>
  /\ moveTimers = IF am THEN hl ELSE {}
  /\ initTimer = "fired"
  /\ scanTimeout = FALSE
  /\ mutTimer = 0
  /\ now = 0
  /\ readyAt = 0
  /\ initDue = NoTimer
  /\ mutDue = NoTimer
  /\ intervalDue = ScanInterval
  /\ shown = [e \in Elems |-> IF e \in hl THEN 95 ELSE 0]
  /\ button = [e \in Elems |-> IF e \in hl THEN "enabled" ELSE "none"]
  /\ inv = <<>>
  /\ bg = [e \in Elems |-> NoRequest]
  /\ popup = ""

\* From there: the auto-move timers, the user's presses of the manual
\* control, the button's timers, the stages of the invocations, and the
\* host removing rows.
InitAutomator == \E am \in BOOLEAN : AfterVerdicts(1..MaxHighlighted, am)

NextAutomator ==
  \/ \E e \in Elems : AutoMoveFire(e)
  \/ \E e \in Elems : ManualClick(e)
  \/ \E e \in Elems : ButtonCheck(e)
  \/ \E e \in Elems : ButtonReset(e)
  \/ \E j \in 1..Len(inv), where \in Places : StageFire(j, where)
  \/ \E e \in Elems : HostRemove(e)

SpecAutomator == InitAutomator /\ [][NextAutomator]_vars

\* setTimeout callbacks run once their delay has passed
SpecAutomatorFair ==
  /\ SpecAutomator
  /\ \A e \in Elems : WF_vars(ButtonCheck(e)) /\ WF_vars(ButtonReset(e))
  /\ \A j \in 1..MaxInvocations :
        WF_vars(\E where \in Places : StageFire(j, where))

\* ------------------------------------------------ highlightSpam, repeated
\* highlightSpam applied any number of times, with any confidence, to the
\* rows of a page whose verdicts were all ham, while the manual controls
\* it adds are pressed and reset; the page shows no spam/junk control.
CallHighlight(e, confidence) ==
  /\ hlCalls[e] < MaxCalls
  /\ HighlightSpam(e, confidence)
  /\ UNCHANGED <<envVars, domVars, markVars, verdict, invoked, inv,
                 scriptVars, storeVars, moveTimers, loadVars, now,
                 intervalDue>>

InitHighlight == AfterVerdicts({}, FALSE)

NextHighlight ==
  \/ \E e \in Elems, c \in Confs : CallHighlight(e, c)
  \/ \E e \in Elems : ManualClick(e)
  \/ \E e \in Elems : ButtonCheck(e)
  \/ \E e \in Elems : ButtonReset(e)
  \/ \E j \in 1..Len(inv) : StageFire(j, "none")

SpecHighlight == InitHighlight /\ [][NextHighlight]_vars

\* ----------------------------------------------------- background worker
\* The service worker's onMessage listener for predictSpam.  A message is
\* described by the way its fetch settles and, when a body was parsed, by
\* the keys the parsed object holds.

\* the ways fetch(`${apiUrl}/predict`) and response.json() settle
Outcomes == {"network", "non2xx", "unparseable", "json"}

\* objects response.json() yields: keys = the own keys among is_spam and
\* confidence; an absent key reads as undefined
JsonBodies ==
  {[keys |-> {"is_spam", "confidence"}, is_spam |-> TRUE, confidence |-> 95],
   [keys |-> {"is_spam", "confidence"}, is_spam |-> FALSE, confidence |-> 90],
   [keys |-> {"is_spam"}, is_spam |-> TRUE, confidence |-> Undefined],
   [keys |-> {"confidence"}, is_spam |-> FALSE, confidence |-> 95],
   NoBody}

\* predictSpam(text): fetch rejects on a network failure, !response.ok
\* throws, response.json() rejects on a body that is not JSON; otherwise
\* the parsed object is returned as it is.
predictSpam(outcome, body) ==
  IF outcome = "json"
  THEN [threw |-> FALSE, data |-> body]
  ELSE [threw |-> TRUE, data |-> NoBody]

\* .then(result => sendResponse({ success: true, ...result }))
\* .catch(error => sendResponse({ success: false, error: error.message }))
OnMessageReply(r) ==
  IF r.threw
  THEN [success |-> FALSE, keys |-> {"error"}, is_spam |-> FALSE,
        confidence |-> Undefined]
  ELSE [success |-> TRUE, keys |-> r.data.keys, is_spam |-> r.data.is_spam,
        confidence |-> r.data.confidence]

\* the listener receives the message of e and calls predictSpam
BgReceive(e) ==
  /\ req[e] = "inflight"
  /\ bg[e].state = "idle"
  /\ bg' = [bg EXCEPT ![e].state = "fetching"]
  /\ UNCHANGED <<service, popup, domVars, markVars, hlVars, invoked,
                 autoVars, scriptVars, storeVars, moveTimers, schedVars>>

\* the promise of predictSpam settles and the listener calls sendResponse
BgSettle(e, outcome, body) ==
  /\ bg[e].state = "fetching"
  /\ bg' = [bg EXCEPT ![e] =
        [state |-> "answered", outcome |-> outcome,
         reply |-> OnMessageReply(predictSpam(outcome, body)),
         replies |-> @.replies + 1]]
  /\ UNCHANGED <<service, popup, domVars, markVars, hlVars, invoked,
                 autoVars, scriptVars, storeVars, moveTimers, schedVars>>

\* The content script's callback runs with the reply.  response.is_spam
\* and response.confidence of an absent key are undefined: falsy, and
\* below every threshold.
BgDeliver(e) ==
  /\ bg[e].state = "answered"
  /\ HandleResponse(e, IF bg[e].reply.success THEN "ok" ELSE "fail",
                    bg[e].reply.is_spam, bg[e].reply.confidence)

\* the page of InitResponses with automation off
InitBackground ==
  /\ InitResponses
  /\ confidenceThreshold = DefaultThreshold
  /\ ~store.autoMoveToSpam /\ ~store.autoDelete

NextBackground ==
  \/ \E e \in Elems : BgReceive(e)
  \/ \E e \in Elems, o \in Outcomes \ {"json"} : BgSettle(e, o, NoBody)
  \/ \E e \in Elems, b \in JsonBodies : BgSettle(e, "json", b)
  \/ \E e \in Elems : BgDeliver(e)

SpecBackground == InitBackground /\ [][NextBackground]_vars

\* ------------------------------------------------------------- timing
\* init() with its clock: the script may start while the document is still
\* loading, the three timers fire when they are due, and the host renders
\* and removes rows at any time.  Requests stay outstanding.

\* init() that arms the initial timer although the document is loading
InitialArmAtLoad(loading) == "pending"

\* if (document.readyState === 'loading') addEventListener(...)
\* else setTimeout(scanEmails, 2000)
InitialArm(loading) == IF loading THEN "waiting" ELSE "pending"

\* The state in which init() has run on a supported host, with the given
\* confidenceThreshold and isEnabled in the store.
Started(stored, enabled, loading) ==
  /\ service \in {"gmail", "outlook"}
  /\ dom = [e \in Elems |-> "absent"]
  /\ subjLen = [e \in Elems |-> 0]
  /\ snipLen = [e \in Elems |-> 0]
  /\ lines = [e \in Elems |-> <<>>]
  /\ rowSel = [e \in Elems |-> {}]
  /\ checked = [e \in Elems |-> FALSE]
  /\ highlighted = [e \in Elems |-> FALSE]
  /\ checkedSets = [e \in Elems |-> 0]
  /\ sent = [e \in Elems |-> 0]
  /\ overlays = [e \in Elems |-> 0]
  /\ hlCalls = [e \in Elems |-> 0]
  /\ invoked = [e \in Elems |-> 0]
  /\ req = [e \in Elems |-> "none"]
  /\ verdict = [e \in Elems |-> NoVerdict]
  /\ isEnabled = TRUE
  /\ confidenceThreshold = DefaultThreshold
  /\ settingsLoaded = FALSE
  /\ store = [isEnabled |-> enabled, confidenceThreshold |-> stored,
              autoMoveToSpam |-> FALSE, autoDelete |-> FALSE,
              scannedCount |-> 0, spamCount |-> 0]
  /\ writes = 0
  /\ storageQ = <<>>
  /\ cbQ = <<>>
  /\ changeQ = <<>>
  /\ moveTimers = {}
  /\ initTimer = InitialArm(loading)
  /\ readyAt = IF loading THEN NoTimer ELSE 0
  /\ initDue = IF initTimer = "pending" THEN SettleDelay ELSE NoTimer
  /\ scanTimeout = FALSE
  /\ mutTimer = 0
  /\ mutDue = NoTimer
  /\ now = 0
  /\ intervalDue = ScanInterval
  /\ shown = [e \in Elems |-> 0]
  /\ button = [e \in Elems |-> "none"]
  /\ inv = <<>>
  /\ bg = [e \in Elems |-> NoRequest]
  /\ popup = ""

InitTimed == \E loading \in BOOLEAN : Started(Undefined, TRUE, loading)

\* The document finishes loading: the DOMContentLoaded listener, if init
\* added one, arms the initial timer.
DomContentLoaded ==
  /\ readyAt = NoTimer
  /\ readyAt' = now
  /\ IF initTimer = "waiting"
     THEN initTimer' = "pending" /\ initDue' = now + SettleDelay
     ELSE UNCHANGED <<initTimer, initDue>>
  /\ UNCHANGED <<envVars, domVars, markVars, hlVars, invoked, autoVars,
                 scriptVars, storeVars, moveTimers, obsVars, now,
                 intervalDue>>

\* a timer's callback may run once its deadline is reached
Due(deadline) == deadline # NoTimer /\ deadline <= now

\* A second passes.  The event loop is idle in this model but for the
\* timers, so a callback that is due runs before the clock moves on.
Tick ==
  /\ now < MaxTime
  /\ ~Due(initDue) /\ ~Due(mutDue) /\ ~Due(intervalDue)
  /\ now' = now + 1
  /\ UNCHANGED <<envVars, domVars, markVars, hlVars, invoked, autoVars,
                 scriptVars, storeVars, moveTimers, obsVars, loadVars,
                 intervalDue>>

NextTimed ==
  \/ DomContentLoaded
  \/ Tick
  \/ \E e \in Elems, t \in Texts :
        HostRender(e, t, TypicalKind(service), <<>>)
  \/ \E e \in Elems : HostRemove(e)
  \/ Due(initDue) /\ InitialScan({})
  \/ Due(mutDue) /\ MutationScan({})
  \/ Due(intervalDue) /\ IntervalScan({})

SpecTimed == InitTimed /\ [][NextTimed]_vars

\* -------------------------------------------------------- stored settings
\* A profile in which a threshold may have been stored before the page was
\* opened: the initial load, the popup's confidence input and enable
\* switch, the change notifications, and scans with their responses.
InitSettings ==
  \E stored \in {Undefined} \cup StoredThresholds, enabled \in BOOLEAN :
     Started(stored, enabled, FALSE)

NextSettings ==
  \/ LoadSettings
  \/ \E t \in InputTexts : PopupConfidenceInput(t)
  \/ \E v \in BOOLEAN : SettingsWrite("isEnabled", v)
  \/ OnChanged
  \/ \E e \in Elems, t \in Texts :
        HostRender(e, t, TypicalKind(service), <<>>)
  \/ InitialScan({})
  \/ MutationScan({})
  \/ IntervalScan({})
  \/ \E e \in Elems, sp \in BOOLEAN, c \in Confs :
        HandleResponse(e, "ok", sp, c)

SpecSettings == InitSettings /\ [][NextSettings]_vars

\* --------------------------------------------------------- harvesting
\* Row discovery and text extraction: the page of Init, on which the host
\* renders and removes rows of every kind, with any primary text and any
\* textContent, while the three triggers run scanEmails.  Requests stay
\* outstanding.
NextHarvest ==
  \/ \E e \in Elems, t \in Texts, k \in RowKinds(service), ls \in LineSets :
        HostRender(e, t, k, ls)
  \/ \E e \in Elems : HostRemove(e)
  \/ InitialScan({})
  \/ MutationScan({})
  \/ IntervalScan({})

SpecHarvest == Init /\ [][NextHarvest]_vars

\* ------------------------------------------------- scans, given timers
\* A supported page with detection enabled whose rows come and go, are
\* scanned by the three triggers and get their verdicts; the callback of
\* a timer that is armed runs eventually.  The storage back end is not
\* followed here.
InitLive == Started(Undefined, TRUE, FALSE)

NextLive ==
  \/ \E e \in Elems, t \in Texts, k \in RowKinds(service) :
        HostRender(e, t, k, <<>>)
  \/ \E e \in Elems : HostRemove(e)
  \/ \E t \in ThrowSets : InitialScan(t)
  \/ \E t \in ThrowSets : MutationScan(t)
  \/ \E t \in ThrowSets : IntervalScan(t)
  \/ \E e \in Elems, sp \in BOOLEAN : HandleResponse(e, "ok", sp, 95)

SpecLive ==
  /\ InitLive
  /\ [][NextLive]_vars
  /\ WF_vars(\E t \in ThrowSets : InitialScan(t))
  /\ WF_vars(\E t \in ThrowSets : MutationScan(t))
  /\ WF_vars(\E t \in ThrowSets : IntervalScan(t))

\* ------------------------------------------- a page the host leaves alone
\* The script starts (run_at document_idle) in a page that already shows
\* its rows, and the host changes nothing from then on: only the timers
\* and the response callbacks run.
InitIdle ==
  /\ service \in {"gmail", "outlook"}
  /\ dom = [e \in Elems |-> "present"]
  /\ \E t \in [Elems -> Texts] :
        /\ subjLen = [e \in Elems |-> t[e][1]]
        /\ snipLen = [e \in Elems |-> t[e][2]]
  /\ lines = [e \in Elems |-> <<>>]
  /\ rowSel = [e \in Elems |-> TypicalKind(service)]
  /\ checked = [e \in Elems |-> FALSE]
  /\ highlighted = [e \in Elems |-> FALSE]
  /\ checkedSets = [e \in Elems |-> 0]
  /\ sent = [e \in Elems |-> 0]
  /\ overlays = [e \in Elems |-> 0]
  /\ hlCalls = [e \in Elems |-> 0]
  /\ invoked = [e \in Elems |-> 0]
  /\ req = [e \in Elems |-> "none"]
  /\ verdict = [e \in Elems |-> NoVerdict]
  /\ isEnabled = TRUE
  /\ confidenceThreshold = DefaultThreshold
  /\ settingsLoaded = FALSE
  /\ store = [isEnabled |-> TRUE, confidenceThreshold |-> Undefined,
              autoMoveToSpam |-> FALSE, autoDelete |-> FALSE,
              scannedCount |-> 0, spamCount |-> 0]
  /\ writes = 0
  /\ storageQ = <<>>
  /\ cbQ = <<>>
  /\ changeQ = <<>>
  /\ moveTimers = {}
  /\ initTimer = InitialArm(FALSE)
  /\ readyAt = 0
  /\ initDue = SettleDelay
  /\ scanTimeout = FALSE
  /\ mutTimer = 0
  /\ mutDue = NoTimer
  /\ now = 0
  /\ intervalDue = ScanInterval
  /\ shown = [e \in Elems |-> 0]
  /\ button = [e \in Elems |-> "none"]
  /\ inv = <<>>
  /\ bg = [e \in Elems |-> NoRequest]
  /\ popup = ""

NextIdle ==
  \/ \E t \in ThrowSets : InitialScan(t)
  \/ \E t \in ThrowSets : MutationScan(t)
  \/ \E t \in ThrowSets : IntervalScan(t)
  \/ \E e \in Elems, k \in {"fail", "ok"}, sp \in BOOLEAN, c \in Confs :
        HandleResponse(e, k, sp, c)

SpecIdle ==
  /\ InitIdle
  /\ [][NextIdle]_vars
  /\ WF_vars(\E t \in ThrowSets : MutationScan(t))

\* ------------------------------------------------------ the scans alone
\* The page's life as far as scanEmails is concerned: rows come and go,
\* detection is switched on and off, the three triggers run and every
\* request is answered.  The answers are ham verdicts and failures; what a
\* spam verdict starts is followed in SpecVerdicts below.
NextScans ==
  \/ LoadSettings
  \/ \E v \in BOOLEAN : SettingsWrite("isEnabled", v)
  \/ OnChanged
  \/ \E e \in Elems, t \in Texts :
        HostRender(e, t, TypicalKind(service), <<>>)
  \/ \E e \in Elems : HostRemove(e)
  \/ \E t \in ThrowSets : InitialScan(t)
  \/ \E t \in ThrowSets : MutationScan(t)
  \/ \E t \in ThrowSets : IntervalScan(t)
  \/ \E e \in Elems, k \in {"lastError", "fail", "ok"} :
        HandleResponse(e, k, FALSE, 95)

SpecScans == Init /\ [][NextScans]_vars

\* ------------------------------------------------- verdicts and storage
\* The page's life with the threshold left at its default: verdicts of
\* confidence 0.95, the storage back end, the auto-move setting and its
\* timer.  No sendMessage throws here; thresholds are followed in
\* SpecSettings.
NextVerdicts ==
  \/ LoadSettings
  \/ \E v \in BOOLEAN : SettingsWrite("isEnabled", v)
  \/ \E v \in BOOLEAN : SettingsWrite("autoMoveToSpam", v)
  \/ OnChanged
  \/ \E e \in Elems, t \in Texts :
        HostRender(e, t, TypicalKind(service), <<>>)
  \/ \E e \in Elems : HostRemove(e)
  \/ InitialScan({})
  \/ MutationScan({})
  \/ IntervalScan({})
  \/ \E e \in Elems, k \in {"lastError", "fail", "ok"}, sp \in BOOLEAN :
        HandleResponse(e, k, sp, 95)
  \/ StorageExecute
  \/ StorageCallback
  \/ \E e \in Elems : AutoMoveFire(e)

SpecVerdicts == Init /\ [][NextVerdicts]_vars

\* ================================================================ claims

\* no request outstanding and no storage work left
Quiescent ==
  /\ storageQ = <<>>
  /\ cbQ = <<>>
  /\ \A e \in Elems : req[e] # "inflight"

\* C1: whatever scans run (initial, mutation, interval, in any order, with
\* responses outstanding), data-spam-checked is set at most once on an
\* element and at most one predictSpam request is sent for it.
C1_AtMostOneRequest ==
  \A e \in Elems : checkedSets[e] <= 1 /\ sent[e] <= 1

\* a row whose request is outstanding and that is still in the page, after
\* the initial scan and a mutation scan have both run, while another row
\* has already been classified
C1_Witness ==
  \E e \in Elems :
     /\ sent[e] = 1 /\ req[e] = "inflight" /\ dom[e] = "present"
     /\ initTimer = "fired" /\ ~scanTimeout
     /\ \E f \in Elems : f # e /\ sent[f] = 1 /\ req[f] = "ok"

C3_ScannedCountExact ==
  Quiescent =>
     store.scannedCount = Cardinality({e \in Elems : req[e] = "ok"})

\* C4 (as claimed): once every callback has run, spamCount has grown by
\* exactly the number of highlighted elements.
C4_SpamCountExact ==
  Quiescent =>
     store.spamCount = Cardinality({e \in Elems : highlighted[e]})

TimerScanStep ==
  \/ initTimer = "pending" /\ initTimer' = "fired"
  \/ mutTimer' < mutTimer

PassEnumerates == isEnabled /\ service # "unknown"

C7_RequestIffLongEnough ==
  [][/\ \A e \in Elems : TextLen(e)' < MinTextLen => sent'[e] = 0
     /\ (TimerScanStep /\ PassEnumerates) =>
           \A e \in EmailElements :
              (~checked[e] /\ TextLen(e) >= MinTextLen)
                 => (sent[e] = 0 /\ sent'[e] = 1)]_vars

\* a row of exactly 5 characters ("ab cd") that was requested, and a row of
\* 2 characters that went through the same scans without a request
C7_Witness ==
  \E e, f \in Elems :
     /\ TextLen(e) = MinTextLen /\ sent[e] = 1
     /\ dom[f] = "present" /\ TextLen(f) = 2 /\ sent[f] = 0
     /\ initTimer = "fired" /\ ~scanTimeout

\* C8: whenever a request for an element has been dispatched (is in
\* flight, or was answered), the element carries data-spam-checked.
C8_CheckedWhenInFlight ==
  \A e \in Elems : (req[e] = "inflight" \/ sent[e] > 0) => checked[e]

\* two requests in flight at once
C8_Witness ==
  \E e, f \in Elems :
     e # f /\ req[e] = "inflight" /\ req[f] = "inflight" /\ checked[e]

\* the classification of e failed: lastError, or {success: false}
Failed(e) == req[e] \in {"lastError", "fail"}

\* C9: when the classification of an element fails, the handler leaves the
\* store and the storage queues alone, and from then on the element stays
\* checked, has had exactly one request, is not highlighted, has no storage
\* operation issued for it and the automator is never started for it.
C9_FailureIsInert ==
  [][\A e \in Elems :
        /\ (req[e] = "inflight" /\ Failed(e)') =>
              UNCHANGED <<store, storageQ, cbQ, highlighted, moveTimers>>
        /\ Failed(e) => Failed(e)'
        /\ Failed(e)' =>
              /\ checked'[e] /\ sent'[e] = 1
              /\ ~highlighted'[e] /\ overlays'[e] = 0
              /\ invoked'[e] = 0 /\ e \notin moveTimers'
              /\ \A i \in 1..Len(storageQ') : storageQ'[i].elem # e
              /\ \A i \in 1..Len(cbQ') : cbQ'[i].elem # e]_vars

\* one element failed with {success: false}, is still in the page after a
\* later mutation scan, and another element was classified and counted
C9_Witness ==
  \E e, f \in Elems :
     /\ req[e] = "fail" /\ dom[e] = "present" /\ ~scanTimeout
     /\ req[f] = "ok" /\ highlighted[f] /\ store.scannedCount = 1

\* C10: a step in which the sendMessage of one element throws still
\* dispatches every eligible row of the pass; neither a throw nor a failed
\* response disarms a trigger: the initial timer is only consumed by its
\* own scan, and observer.scanTimeout is set only while its timer is
\* pending to clear it.
C10_FailureIsIsolated ==
  [][/\ (\E e \in Elems : req[e] # "thrown" /\ req'[e] = "thrown") =>
           \A f \in Targets : req'[f] \in {"thrown", "inflight"}
                                /\ checked'[f] /\ sent'[f] = 1
     /\ (\E e \in Elems : req[e] = "inflight" /\ Failed(e)') =>
           UNCHANGED schedVars
     /\ scanTimeout' <=> mutTimer' > 0]_vars

\* the first row's dispatch threw and the second row's request is in flight
C10_Witness ==
  \E e, f \in Elems :
     e < f /\ req[e] = "thrown" /\ req[f] = "inflight" /\ scanTimeout

\* C11 (as claimed): within one invocation of moveEmailToSpam, once a stage
\* has clicked a spam/junk control no later poll or stage clicks again: an
\* invocation activates a control at most once.
C11_AtMostOneActivation ==
  \A j \in 1..Len(inv) : inv[j].clicks <= 1

\* C12 (as claimed): the stages of an invocation run in the stated order:
\* the toolbar search only after every element/ancestor poll has run (and
\* failed), the keyboard shortcut only after the toolbar search has run
\* (and failed), the context menu only after the keyboard shortcut, its
\* menu probe only after the context menu.
C12_StagesInOrder ==
  \A j \in 1..Len(inv) :
     LET r == inv[j] IN
       /\ "toolbar" \in r.ran => Polls \subseteq r.ran
       /\ "keyboard" \in r.ran => "toolbar" \in r.ran
       /\ "context" \in r.ran => "keyboard" \in r.ran
       /\ "menu" \in r.ran => "context" \in r.ran
       /\ r.ran \cap {"keyboard", "context"} # {} => ~r.moved

\* C13 (as claimed): moveEmailToSpam on gmail or outlook returns true
\* ("attempted") as soon as it has selected the element, before any timed
\* stage has run.
C13_ReturnsAttempted ==
  \A j \in 1..Len(inv) : inv[j].ret = TRUE

\* the automator was started, or is due to be started, for e by the
\* auto-move path
AutoActed(e) ==
  \/ e \in moveTimers
  \/ \E j \in 1..Len(inv) : inv[j].elem = e /\ inv[j].by = "auto"

\* the verdict handled for e was spam at or above the threshold in effect
Qualifies(e) ==
  /\ verdict[e].kind = "ok" /\ verdict[e].spam
  /\ verdict[e].conf >= verdict[e].thr

C15_EitherKeyInvokes ==
  (Quiescent /\ moveTimers = {} /\ (store.autoMoveToSpam \/ store.autoDelete))
     => \A e \in Elems : highlighted[e] => invoked[e] >= 1

\* C16: highlightSpam is idempotent per element: after any number of calls
\* the element carries exactly one overlay container (tooltip and manual
\* control), and a call on an element that is already highlighted changes
\* nothing: marker, overlay, displayed confidence and the state of the
\* control stay as they are.
C16_HighlightIdempotent ==
  /\ [](\A e \in Elems :
          /\ hlCalls[e] >= 1 =>
                (highlighted[e] /\ overlays[e] = 1 /\ button[e] # "none")
          /\ hlCalls[e] = 0 =>
                (~highlighted[e] /\ overlays[e] = 0 /\ button[e] = "none"))
  /\ [][\A e \in Elems :
          (highlighted[e] /\ hlCalls'[e] > hlCalls[e]) =>
             /\ highlighted'[e] /\ overlays'[e] = overlays[e]
             /\ shown'[e] = shown[e] /\ button'[e] = button[e]]_vars

\* highlightSpam was called three times for a row, which still shows the
\* confidence of the first call, while its control is disabled after a
\* press; another row was never highlighted
C16_Witness ==
  \E e, f \in Elems :
     /\ hlCalls[e] = MaxCalls /\ overlays[e] = 1 /\ shown[e] = 90
     /\ button[e] = "moving"
     /\ hlCalls[f] = 0

\* the last invocation was started for e by the manual control
PressStarted(e) ==
  /\ Len(inv') = Len(inv) + 1
  /\ inv'[Len(inv')].elem = e
  /\ inv'[Len(inv')].by = "manual"

\* C17: pressing the manual control of an element starts the automator for
\* that element, whatever the value of the auto-action setting.
C17_PressInvokes ==
  [][\A e \in Elems :
        (button[e] = "enabled" /\ button'[e] = "moving") =>
           /\ PressStarted(e)
           /\ invoked'[e] = invoked[e] + 1
           /\ inv'[Len(inv')].pending = {"reveal"}]_vars

\* with the auto-action setting off, a manual invocation has run its
\* reveal stage
C17_Witness ==
  /\ ~store.autoMoveToSpam /\ ~store.autoDelete
  /\ \E j \in 1..Len(inv) :
        inv[j].by = "manual" /\ "reveal" \in inv[j].ran /\ moveTimers = {}

\* the control of e is disabled
Disabled(e) == button[e] \in {"moving", "moved"}

\* C18: a press disables the control; while it is disabled no invocation is
\* started from it; and after the cool-down (the checkDelay timer, then the
\* 2000 ms timer) it is enabled again, whatever the stages did and even if
\* the row has left the page.
C18_CoolDown ==
  /\ [][\A e \in Elems :
          /\ (button[e] = "enabled" /\ button'[e] # "enabled") =>
                (button'[e] = "moving" /\ PressStarted(e))
          /\ Disabled(e) => ~PressStarted(e)
          /\ (Disabled(e) /\ button'[e] # button[e]) =>
                \/ button[e] = "moving" /\ button'[e] = "moved"
                \/ button[e] = "moved" /\ button'[e] = "enabled"]_vars
  /\ \A e \in Elems : Disabled(e) ~> (button[e] = "enabled")

\* the control is enabled again after a press whose invocation clicked a
\* junk control, the row having been removed by the host meanwhile
C18_Witness ==
  \E e \in Elems :
     /\ button[e] = "enabled" /\ dom[e] = "removed"
     /\ \E j \in 1..Len(inv) :
           inv[j].elem = e /\ inv[j].by = "manual" /\ inv[j].moved

\* C19: on a host that is neither gmail nor outlook a scan is a no-op: no
\* element is marked checked, no request is sent, nothing is highlighted,
\* no counter changes and no storage operation is issued.
C19_UnknownHostNoOp ==
  service = "unknown" =>
     /\ \A e \in Elems :
           /\ ~checked[e] /\ checkedSets[e] = 0 /\ sent[e] = 0
           /\ req[e] = "none" /\ ~highlighted[e] /\ overlays[e] = 0
           /\ invoked[e] = 0
     /\ store.scannedCount = 0 /\ store.spamCount = 0
     /\ storageQ = <<>> /\ cbQ = <<>> /\ moveTimers = {} /\ inv = <<>>

\* on an unknown host, with detection enabled, a row with classifiable
\* text is in the page after the initial scan and a mutation scan that
\* followed its rendering
C19_Witness ==
  /\ service = "unknown" /\ isEnabled /\ settingsLoaded
  /\ initTimer = "fired" /\ ~scanTimeout
  /\ \E e \in Elems : dom[e] = "present" /\ TextLen(e) >= MinTextLen

\* C20: a step taken while detection is disabled marks no element and
\* sends no request, whichever scans it runs; a response that arrives while
\* detection is disabled, for a request dispatched before, is handled in
\* full: the verdict is counted and the element is highlighted exactly
\* when the verdict qualifies.
C20_DisabledScanIdle ==
  [][~isEnabled =>
       /\ UNCHANGED <<checked, checkedSets, sent>>
       /\ \A e \in Elems : req'[e] = "inflight" => req[e] = "inflight"
       /\ \A e \in Elems :
             (req[e] = "inflight" /\ req'[e] = "ok") =>
                /\ verdict'[e].kind = "ok"
                /\ Len(storageQ') > Len(storageQ)
                /\ storageQ'[Len(storageQ) + 1] = GetOp("scannedCount", e)
                /\ highlighted'[e] <=>
                      (verdict'[e].spam /\
                         verdict'[e].conf >= confidenceThreshold)
                /\ highlighted'[e] =>
                      (overlays'[e] = 1 /\
                         storageQ'[Len(storageQ) + 3] =
                            GetOp("autoMoveToSpam", e))]_vars

\* detection is disabled; the verdict of one row was handled after the
\* disable, highlighted it and was counted; another row with classifiable
\* text, rendered since, is still unchecked after a mutation scan
C20_Witness ==
  /\ ~isEnabled
  /\ \E e, f \in Elems :
        /\ verdict[e].kind = "ok" /\ ~verdict[e].enabled /\ highlighted[e]
        /\ store.scannedCount = 1 /\ store.spamCount = 1
        /\ dom[f] = "present" /\ TextLen(f) >= MinTextLen /\ ~checked[f]
        /\ ~scanTimeout

\* the first row selector pattern, in the order of the code, that matches
\* a row of the document (0: none does)
FirstHit ==
  LET hit == {k \in 1..OutlookRowSelectors :
                 \E e \in Elems : dom[e] = "present" /\ k \in rowSel[e]}
  IN IF hit = {} THEN 0 ELSE CHOOSE k \in hit : \A j \in hit : k <= j

\* C21: a pass harvests exactly the rows matched by the first pattern, in
\* the fixed order, that matches anything: a row matched only by later
\* patterns is not marked or requested in that pass, and when only the Nth
\* pattern matches, the rows harvested are those the Nth pattern matches.
C21_FirstMatchingSelectorOnly ==
  [][(TimerScanStep /\ PassEnumerates) =>
        \A e \in Elems :
           (~checked[e] /\ checked'[e]) <=>
              /\ dom[e] = "present" /\ FirstHit \in rowSel[e]
              /\ ~checked[e] /\ TextLen(e) >= MinTextLen]_vars

\* after the initial scan and a mutation scan that followed the rendering
\* of both rows: a row that the first pattern does not match was harvested
\* through a later pattern, while a row with classifiable text that only a
\* still later pattern matches is left alone
C21_Witness ==
  \E e, f \in Elems :
     /\ dom[e] = "present" /\ dom[f] = "present"
     /\ 1 \notin rowSel[e] /\ checked[e] /\ sent[e] = 1
     /\ rowSel[e] \cap rowSel[f] = {}
     /\ \A k \in rowSel[f] : FirstHit < k
     /\ TextLen(f) >= MinTextLen /\ ~checked[f] /\ sent[f] = 0
     /\ initTimer = "fired" /\ ~scanTimeout

\* the fallback text the claim describes: lines shorter than 3 characters
\* are discarded, the first remaining line is the subject and the rest the
\* snippet
ClaimedFallbackLen(ls) ==
  LET kept == SelectSeq(ls, LAMBDA l : l >= MinLineLen) IN
  IF kept = <<>> THEN 0
  ELSE IF Len(kept) = 1 THEN kept[1]
  ELSE kept[1] + 1 + JoinLen(Tail(kept))

\* the fallback text of the code: lines of at most 3 characters are
\* discarded; outlook cuts the subject to 100 and the snippet to 200
\* characters
AmendedFallbackLen(svc, ls) ==
  LET kept == SelectSeq(ls, LAMBDA l : l >= MinLineLen + 1)
      cut(len, limit) == IF svc = "outlook" /\ len > limit THEN limit
                         ELSE len
  IN IF kept = <<>> THEN 0
     ELSE IF Len(kept) = 1 THEN cut(kept[1], SubjectLimit)
     ELSE cut(kept[1], SubjectLimit) + 1
             + cut(JoinLen(Tail(kept)), SnippetLimit)

PrimaryEmpty(e) == subjLen[e] = 0 /\ snipLen[e] = 0

\* C29 (as claimed): the text of a row is the primary subject and snippet
\* unless both are empty; then it is built from the lines of its
\* textContent, discarding exactly the lines shorter than 3 characters.
C29_FallbackDropsShorterThan3 ==
  \A e \in Elems : dom[e] = "present" =>
     TextLen(e) = IF PrimaryEmpty(e) THEN ClaimedFallbackLen(lines[e])
                  ELSE getEmailTextLen(subjLen[e], snipLen[e])

\* C29 (amended): the fallback discards the lines of 3 characters or
\* fewer, and for outlook it cuts the subject to 100 and the snippet to 200
\* characters; a pass marks and requests a row exactly when the text so
\* obtained has at least 5 characters.
C29_FallbackDropsUpTo3 ==
  \A e \in Elems : dom[e] = "present" =>
     /\ TextLen(e) = IF PrimaryEmpty(e)
                     THEN AmendedFallbackLen(service, lines[e])
                     ELSE getEmailTextLen(subjLen[e], snipLen[e])
     /\ (checked[e] /\ sent[e] = 1) => TextLen(e) >= MinTextLen
     /\ (FirstHit \in rowSel[e] /\ TextLen(e) >= MinTextLen /\ isEnabled
           /\ service # "unknown" /\ initTimer = "fired" /\ ~scanTimeout)
          => checked[e]

\* an outlook row without primary text whose textContent has three lines
\* of 150 characters was requested with the cut text (100 + 1 + 200), next
\* to a row whose only line has 3 characters and is left unchecked, and
\* nothing is left to scan
C29_Witness ==
  \E e, f \in Elems :
     /\ service = "outlook"
     /\ dom[e] = "present" /\ PrimaryEmpty(e) /\ Len(lines[e]) = 3
     /\ TextLen(e) = SubjectLimit + 1 + SnippetLimit /\ sent[e] = 1
     /\ dom[f] = "present" /\ PrimaryEmpty(f) /\ lines[f] = <<3>>
     /\ rowSel[f] = rowSel[e] /\ ~checked[f]
     /\ initTimer = "fired" /\ ~scanTimeout


\* a step in which scanEmails marked and submitted every eligible row
ScanRan == \A e \in Targets : checked'[e] /\ sent'[e] = sent[e] + 1

\* C22: at most one mutation-triggered scan is pending at any time; a
\* mutation observed while one is pending arms no second timer and moves no
\* deadline, a mutation observed while none is pending arms one due a
\* second later, and the pending timer runs one scan when it fires.
C22_OneMutationScanPending ==
  /\ [](/\ mutTimer <= 1
        /\ scanTimeout <=> mutTimer = 1
        /\ mutTimer = 1 => mutDue # NoTimer /\ mutDue - now \in 0..MutationDelay)
  /\ [][dom' # dom =>
          /\ mutTimer' = 1
          /\ mutDue' = IF mutTimer = 1 THEN mutDue ELSE now + MutationDelay]_vars
  /\ [][mutTimer' < mutTimer => now = mutDue /\ mutTimer' = 0 /\ ScanRan]_vars

\* two rows with text were rendered after the initial scan, and one timer
\* of the observer is pending and due
C22_Witness ==
  /\ initTimer = "fired" /\ mutTimer = 1 /\ now = mutDue
  /\ intervalDue = ScanInterval
  /\ \A e \in 1..MaxRendered : e \in Targets

\* C23: the page-load trigger produces exactly one scan, and only once the
\* settle delay has elapsed since the document was ready (since the script
\* ran, when the document was ready by then).
C23_InitialScanOnceAfterSettle ==
  /\ [](/\ initTimer = "waiting" <=> readyAt = NoTimer
        /\ initTimer = "pending" =>
              initDue = readyAt + SettleDelay /\ now <= initDue)
  /\ [][initTimer # "fired" /\ initTimer' = "fired" =>
          /\ initTimer = "pending"
          /\ now = readyAt + SettleDelay
          /\ ScanRan]_vars
  /\ [][initTimer = "fired" => initTimer' = "fired"]_vars

\* the document was ready 3 s after the script ran, the only row was
\* rendered 2 s later and the initial scan has submitted it
C23_Witness ==
  /\ initTimer = "fired" /\ readyAt = 3 /\ now = 5
  /\ dom = [e \in Elems |-> IF e = 1 THEN "present" ELSE "absent"]
  /\ mutTimer = 1 /\ mutDue = 6
  /\ checked[1] /\ req[1] = "inflight"

\* C24: the interval trigger runs a scan every 10 s for as long as the
\* script lives, whatever else is pending: each of its callbacks scans and
\* the next one is due 10 s later.
C24_IntervalScansUnconditionally ==
  /\ [](/\ intervalDue % ScanInterval = 0
        /\ intervalDue - now \in 0..ScanInterval)
  /\ [][intervalDue' # intervalDue =>
          /\ now = intervalDue
          /\ intervalDue' = intervalDue + ScanInterval
          /\ ScanRan]_vars

\* the first interval callback submitted row 2, rendered in the same
\* second, while the observer's timer was pending and the response for
\* row 1 was outstanding since the initial scan
C24_Witness ==
  /\ now = ScanInterval /\ intervalDue = 2 * ScanInterval
  /\ readyAt = 0 /\ initTimer = "fired"
  /\ scanTimeout /\ mutDue = now + MutationDelay
  /\ dom[1] = "present" /\ dom[2] = "present"
  /\ req[1] = "inflight" /\ req[2] = "inflight"
  /\ sent[1] = 1 /\ sent[2] = 1


\* C28 (as claimed): on gmail, an invocation whose polls have all run
\* without finding a spam control goes on to a context-menu attempt, as on
\* outlook: once none of its timers is pending, the context-menu stage is
\* among the stages that ran.
C28_GmailFallsBackToContextMenu ==
  \A j \in 1..Len(inv) :
     LET r == inv[j] IN
       (/\ service = "gmail"
        /\ Polls \subseteq r.ran /\ r.pending = {}
        /\ ~r.moved)
          => "context" \in r.ran


\* the parsed body holds both fields of a prediction
WellFormed(reply) == {"is_spam", "confidence"} \subseteq reply.keys

\* C25 (as claimed): the background handler answers a predictSpam request
\* exactly once; the answer has success = true, with is_spam and
\* confidence, when the service answered 2xx with a well-formed body, and
\* success = false with an error on a network failure, a non-2xx status or
\* a malformed body, a parseable body lacking is_spam or confidence
\* included.
C25_ReplyMatchesOutcome ==
  \A e \in Elems :
     bg[e].state = "answered" =>
       /\ bg[e].replies = 1
       /\ bg[e].reply.success <=>
             (bg[e].outcome = "json" /\ WellFormed(bg[e].reply))
       /\ ~bg[e].reply.success => "error" \in bg[e].reply.keys


\* C26 (as claimed): once the initial settings load has run (and before any
\* later change), confidenceThreshold equals the stored value whenever one
\* is stored, 0 included, and the default 0.9 only when none is stored.
C26_LoadedThresholdIsStored ==
  (settingsLoaded /\ writes = 0) =>
     confidenceThreshold =
        IF store.confidenceThreshold # Undefined
        THEN store.confidenceThreshold ELSE DefaultThreshold

\* a step that delivers the oldest pending change notification
ChangeDelivered == changeQ # <<>> /\ changeQ' = Tail(changeQ)

\* C27: a delivered change notification for isEnabled or
\* confidenceThreshold installs the new value; only a later notification or
\* the initial load changes it again, and with every notification delivered
\* and the load done the variables hold what the store holds; every scan
\* tests the current isEnabled and every verdict the current
\* confidenceThreshold.
C27_ChangesTakeEffect ==
  /\ [][ChangeDelivered =>
          LET c == Head(changeQ) IN
            /\ c.key = "isEnabled" => isEnabled' = c.newValue
            /\ c.key = "confidenceThreshold" =>
                  confidenceThreshold' = c.newValue]_vars
  /\ [][(isEnabled' # isEnabled
            \/ confidenceThreshold' # confidenceThreshold) =>
          ChangeDelivered \/ (~settingsLoaded /\ settingsLoaded')]_vars
  /\ []((settingsLoaded /\ changeQ = <<>>) =>
          /\ isEnabled = store.isEnabled
          /\ store.confidenceThreshold \notin {Undefined, 0} =>
                confidenceThreshold = store.confidenceThreshold)
  /\ [][sent' # sent => isEnabled]_vars
  /\ [][TimerScanStep => IF isEnabled THEN ScanRan ELSE UNCHANGED markVars]_vars
  /\ [][\A e \in Elems : verdict'[e] # verdict[e] =>
          /\ verdict'[e].thr = confidenceThreshold
          /\ highlighted'[e] <=>
                (verdict'[e].spam
                   /\ verdict'[e].conf >= confidenceThreshold)]_vars

\* detection, stored as switched off, was switched on in the popup; the
\* notification was delivered and a scan has submitted row 1
C27_Witness ==
  /\ popup = "" /\ writes = 1 /\ store.isEnabled
  /\ settingsLoaded /\ changeQ = <<>> /\ isEnabled
  /\ sent[1] = 1 /\ req[1] = "inflight"

\* C30: the popup writes confidenceThreshold only when the value typed
\* parses to a number in [0, 1]: such a value is stored, any other text
\* leaves the store as it is and notifies nobody.
C30_PopupWritesOnlyInRange ==
  /\ [](store.confidenceThreshold = Undefined
          \/ store.confidenceThreshold \in 0..100)
  /\ [][popup' # popup =>
          LET value == parseFloat(popup') IN
            IF value \in 0..100
            THEN store'.confidenceThreshold = value
            ELSE store' = store /\ changeQ' = changeQ]_vars
  /\ [][store'.confidenceThreshold # store.confidenceThreshold =>
          popup' # popup]_vars

\* "1" was typed and stored, then "1.1" was typed and not stored
C30_Witness ==
  /\ popup = "1.1" /\ writes = 1
  /\ store.confidenceThreshold = 100


C36_HighlightedSetOrderFree ==
  \A e \in Elems :
     req[e] # "inflight" =>
       (highlighted[e] <=>
          /\ req[e] = "ok"
          /\ verdict[e].spam
          /\ verdict[e].conf >= confidenceThreshold)

\* every response has arrived: a spam verdict for the rows 1 and 3, a ham
\* verdict for row 2, and exactly the rows 1 and 3 are highlighted
C36_Witness ==
  /\ \A e \in Elems : req[e] = "ok" /\ verdict[e].conf = 95
  /\ verdict[1].spam /\ ~verdict[2].spam /\ verdict[NumElems].spam
  /\ highlighted[1] /\ ~highlighted[2] /\ highlighted[NumElems]

\* C37: a row that carries the highlighted marker carries the checked
\* marker and got a successful spam verdict, and no step takes either
\* marker off a row.
C37_HighlightedImpliesChecked ==
  /\ [](\A e \in Elems :
          highlighted[e] =>
            checked[e] /\ verdict[e].kind = "ok" /\ verdict[e].spam)
  /\ [][\A e \in Elems :
          /\ checked[e] => checked'[e]
          /\ highlighted[e] => highlighted'[e]]_vars

\* a highlighted row that the host has removed from the document keeps
\* both markers
C37_Witness ==
  \E e \in Elems :
     highlighted[e] /\ checked[e] /\ dom[e] = "removed"


\* C32 (as claimed): no classification request is sent while the stored
\* isEnabled is false, the time before the settings read at script load
\* has returned included.
C32_NoRequestWhileStoredDisabled ==
  [][(\E e \in Elems : sent'[e] > sent[e]) => store.isEnabled]_vars


\* C31 (as claimed): a control that the element/ancestor search of a poll
\* clicks lies in the row of the invocation's own element, never in the
\* row of another message.
C31_ClickStaysInOwnRow ==
  \A j \in 1..Len(inv) : "other" \notin inv[j].hits

\* invocation j still holds a timer
InProgress(j) == inv[j].pending # {}

\* C34 (as claimed): at most one invocation is in progress on an element;
\* no second invocation, automatic or manual, holds timers on an element
\* while an earlier one on it does.
C34_OneInvocationPerElement ==
  \A i, j \in 1..Len(inv) :
     (i < j /\ inv[i].elem = inv[j].elem) => ~(InProgress(i) /\ InProgress(j))

\* the manual invocations on row e
ManualOn(e) == {j \in 1..Len(inv) : inv[j].elem = e /\ inv[j].by = "manual"}

\* C35: the button of a row is re-enabled only when every timer of the
\* invocation its press started has fired, so at most one manual
\* invocation on a row holds timers at any time.
C35_ReenabledAfterStages ==
  /\ [][\A e \in Elems :
          (button[e] = "moved" /\ button'[e] = "enabled") =>
             \A j \in ManualOn(e) : ~InProgress(j)]_vars
  /\ [](\A e \in Elems :
          Cardinality({j \in ManualOn(e) : InProgress(j)}) <= 1)

\* the button was pressed a second time: the first press's invocation ran
\* all its stages, the second press's invocation still holds timers
C35_Witness ==
  \E e \in Elems, i, j \in 1..Len(inv) :
     /\ i < j /\ {i, j} \subseteq ManualOn(e)
     /\ ~InProgress(i) /\ "poll3" \in inv[i].ran
     /\ InProgress(j) /\ button[e] = "moving"


\* row e is in the page with a combined text of at least 5 characters, on
\* a supported host with detection enabled
Stays(e) ==
  /\ dom[e] = "present" /\ ~TooShort(TextLen(e))
  /\ isEnabled /\ service # "unknown"

\* row e is checked and sendMessage was called for it
Requested(e) == checked[e] /\ sent[e] >= 1

\* C38 (as claimed): given that timers fire, every row that stays in the
\* page with at least 5 characters of text is eventually checked and has
\* its request sent.
C38_EveryRowEventuallyChecked ==
  \A e \in Elems : Stays(e) ~> (Requested(e) \/ ~Stays(e))

\* C38 (amended): given that timers fire, every such row that stays among
\* the rows row discovery selects (the matches of the first pattern that
\* matches anything) is eventually checked and has its request sent.
C38_DiscoveredRowEventuallyChecked ==
  \A e \in Elems :
     (Stays(e) /\ e \in EmailElements)
        ~> (Requested(e) \/ ~Stays(e) \/ e \notin EmailElements)

\* row 2, matched by none of the patterns that matched row 1, was checked
\* after row 1 had left the page
C38_Witness ==
  /\ dom[1] = "removed" /\ req[1] = "none"
  /\ rowSel[1] \cap rowSel[2] = {}
  /\ Stays(2) /\ Requested(2)

\* C39: when the timer of the mutation trigger fires, its pending flag is
\* cleared, also when sendMessage threw in the scan; only that callback
\* clears the flag; and a flag that is set is cleared eventually, so every
\* mutation is followed by a scan and the trigger is never stuck.
C39_TriggerNeverStuck ==
  /\ [][/\ mutTimer' < mutTimer => ~scanTimeout'
        /\ (scanTimeout /\ ~scanTimeout') => mutTimer' < mutTimer
        /\ dom' # dom => scanTimeout']_vars
  /\ scanTimeout ~> ~scanTimeout

\* the trigger is idle again and the row's sendMessage threw, the initial
\* pass being still to come
C39_Witness ==
  /\ ~scanTimeout /\ mutTimer = 0
  /\ initTimer = "pending"
  /\ \E e \in Elems : req[e] = "thrown" /\ dom[e] = "present"

\* C40: in a page the host does not change, only the insertion of the
\* overlay by the first highlighting of a row arms the mutation trigger
\* (no scan does), a row gets at most one overlay, and the trigger
\* eventually stays idle.
C40_OwnMutationsDieOut ==
  /\ [][(~scanTimeout /\ scanTimeout') =>
          \E e \in Elems :
             ~highlighted[e] /\ highlighted'[e] /\ overlays'[e] = 1]_vars
  /\ [](\A e \in Elems : overlays[e] <= 1)
  /\ <>[](~scanTimeout)

\* every row of the page was highlighted and the trigger, armed by an
\* overlay, is idle again
C40_Witness ==
  /\ \A e \in Elems : highlighted[e] /\ overlays[e] = 1
  /\ ~scanTimeout /\ mutTimer = 0

====
